---- MODULE Spec2Model ----
(***************************************************************************)
(* Connection pools of the zmq4 socket core (msgio.go): the readiness      *)
(* gate (semaphore), the fan-in read pool (qreader), the broadcast write   *)
(* pool (mwriter) and the load-balanced write pool (lbwriter).             *)
(*                                                                         *)
(* One pool is under study in a behaviour: Init picks which (kind).        *)
(* Goroutines are processes with a program counter; a Go panic is recorded *)
(* in fault and stops the program.                                         *)
(***************************************************************************)
EXTENDS Integers, Sequences, FiniteSets, TLC

\* ---------------------------------------------------------------- bounds
NConns == 3          \* connections (adapters) the socket may register
NCallers == 2        \* goroutines of the application calling read / write
MaxMsgs == 1         \* messages written / produced per connection (general case)
MaxCloses == 2       \* Close calls on a pool

\* ------------------------------------------------------ program constants
size == 10           \* capacity of lbwriter.c
qrsize == 10         \* capacity of qreader.c

Conn == 1..NConns
Caller == 1..NCallers
\* Messages of the write pools: "m" is one message followed through the pool
\* (written by the application at most once), "o" stands for any other one.
Payload == {"m", "o"}
NoMsg == "-"
\* Enough messages to fill a queue of the pools and keep one caller waiting.
FullMsgs == size + 2

VARIABLES
    kind,       \* which pool this program instantiates: "qr", "mw" or "lb"
    fault,      \* "none", or the panic that stopped the program
    env,        \* the application: [conns, callers, msgs, prod], fixed by Init
    mode,       \* environment: how each connection's SendMsg behaves
    \* ---- lbwriter
    lbReady,    \* lw.sem.ready is closed (gate open)
    lbC,        \* buffer of the channel lw.c
    lbCClosed,  \* lw.c is closed
    lbCtx,      \* lw.ctx is cancelled
    lbAdd,      \* position of addConn(w) for each adapter
    lbW,        \* worker goroutine lw.listen of each adapter: [pc, msg]
    lbWr,       \* write callers: [pc, msg, cancelled, ret, enq]
    lbIssued,   \* number of write calls issued
    lbCloses,   \* number of Close calls that returned
    lbMIssued,  \* write(ctx, "m") has been called
    lbMAcc,     \* write(ctx, "m") returned nil
    lbMWrote,   \* number of successful writes of "m" on a connection
    lbMFailedOn, \* the adapter on which the last write of "m" failed, or 0
    \* ---- qreader
    qrReady,    \* q.sem.ready is closed (gate open)
    qrC,        \* buffer of the channel q.c
    qrCtx,      \* q.ctx is cancelled
    qrRs,       \* q.rs, the registered adapters
    qrRLocks,   \* number of Close calls holding q.mu.RLock
    qrCl,       \* Close calls in progress: [pc, n, i, pend]
    qrCloses,   \* number of Close calls that returned
    qrAdd,      \* position of addConn(r) for each adapter
    qrW,        \* worker goroutine q.listen of each adapter: [pc, msg]
    qrConn,     \* each connection: [prod, closed] messages produced, Close calls
    qrRd,       \* read callers: [pc, cancelled, msg, took, ret]
    qrCnt,      \* per connection: messages of it returned by read calls
    qrLast,     \* per connection: number of the last message returned
    qrErrEnq,   \* per connection: times its failed message was enqueued
    qrErrGot,   \* per connection: read calls that returned its failure
    \* ---- mwriter
    mwReady,    \* w.sem.ready is closed (gate open)
    mwWs,       \* w.ws, the registered adapters
    mwMu,       \* w.mu: 0 when free, else the write caller holding it
    mwAdd,      \* whether addConn(w) was called for each adapter
    mwConn,     \* each connection: [log, closed] messages received, Close calls
    mwWr,       \* write callers: [pc, msg, snap, pend, att, failed, ret]
    mwIssued,   \* number of write calls issued (the next message's number)
    mwCloses    \* number of Close calls that returned

lbVars == <<lbReady, lbC, lbCClosed, lbCtx, lbAdd, lbW, lbWr,
            lbIssued, lbCloses, lbMIssued, lbMAcc, lbMWrote, lbMFailedOn>>
qrVars == <<qrReady, qrC, qrCtx, qrRs, qrRLocks, qrCl, qrCloses, qrAdd, qrW,
            qrConn, qrRd, qrCnt, qrLast, qrErrEnq, qrErrGot>>
mwVars == <<mwReady, mwWs, mwMu, mwAdd, mwConn, mwWr, mwIssued, mwCloses>>
vars == <<kind, fault, env, mode, lbVars, qrVars, mwVars>>

Running == fault = "none"

\* ------------------------------------------------------------- semaphore
\* enable(), first step: the select on sem.ready. A closed channel makes the
\* receive ready (ok = false, nothing to do); an open one takes the default
\* branch, which goes on to close(sem.ready).
EnableSeesClosed(ready) == ready

\* close(sem.ready): closing a closed channel panics.
CloseReadyFault(ready) == ready

\* A lock() that does not wait for the channel.
LockNoWait(ready) == TRUE

\* lock(): <-sem.ready returns only once the channel is closed.
LockPasses(ready) == ready

\* ------------------------------------------------------------- lbwriter
LbIdleCall == [pc |-> "idle", msg |-> NoMsg, cancelled |-> FALSE,
               ret |-> "-", enq |-> FALSE]
LbOffWorker == [pc |-> "off", msg |-> NoMsg]

InitLB ==
    /\ lbReady = FALSE
    /\ lbC = <<>>
    /\ lbCClosed = FALSE
    /\ lbCtx = FALSE
    /\ lbAdd = [c \in Conn |-> "idle"]
    /\ lbW = [c \in Conn |-> LbOffWorker]
    /\ lbWr = [k \in Caller |-> LbIdleCall]
    /\ lbIssued = 0
    /\ lbCloses = 0
    /\ lbMIssued = FALSE
    /\ lbMAcc = FALSE
    /\ lbMWrote = 0
    /\ lbMFailedOn = 0

\* addConn(w), lw.sem.enable(): the select.
LbAddConnEnable(c) ==
    /\ Running /\ kind = "lb"
    /\ c \in env.conns
    /\ lbAdd[c] = "idle"
    /\ lbAdd' = [lbAdd EXCEPT ![c] =
                   IF EnableSeesClosed(lbReady) THEN "go" ELSE "close"]
    /\ UNCHANGED <<qrVars, mwVars, kind, env, mode, fault, lbReady, lbC, lbCClosed, lbCtx, lbW,
                   lbWr, lbIssued, lbCloses, lbMIssued, lbMAcc, lbMWrote, lbMFailedOn>>

\* addConn(w), lw.sem.enable(): close(sem.ready) of the default branch.
LbAddConnClose(c) ==
    /\ Running /\ kind = "lb"
    /\ lbAdd[c] = "close"
    /\ IF CloseReadyFault(lbReady)
         THEN /\ fault' = "close of closed channel sem.ready"
              /\ UNCHANGED <<lbReady, lbAdd>>
         ELSE /\ lbReady' = TRUE
              /\ lbAdd' = [lbAdd EXCEPT ![c] = "go"]
              /\ UNCHANGED fault
    /\ UNCHANGED <<qrVars, mwVars, kind, env, mode, lbC, lbCClosed, lbCtx, lbW, lbWr, lbIssued,
                   lbCloses, lbMIssued, lbMAcc, lbMWrote, lbMFailedOn>>

\* addConn(w): go lw.listen(lw.ctx, w)
LbAddConnGo(c) ==
    /\ Running /\ kind = "lb"
    /\ lbAdd[c] = "go"
    /\ lbAdd' = [lbAdd EXCEPT ![c] = "done"]
    /\ lbW' = [lbW EXCEPT ![c] = [pc |-> "select", msg |-> NoMsg]]
    /\ UNCHANGED <<qrVars, mwVars, kind, env, mode, fault, lbReady, lbC, lbCClosed, lbCtx, lbWr,
                   lbIssued, lbCloses, lbMIssued, lbMAcc, lbMWrote, lbMFailedOn>>

\* The application calls lw.write(ctx, msg); ctx may already be cancelled.
LbWriteCall(k) ==
    /\ Running /\ kind = "lb"
    /\ k \in env.callers
    /\ lbWr[k].pc = "idle"
    /\ lbIssued < env.msgs
    /\ \E p \in Payload, cn \in BOOLEAN :
         /\ p = "m" => ~lbMIssued
         /\ lbWr' = [lbWr EXCEPT ![k] = [pc |-> "lock", msg |-> p,
                                         cancelled |-> cn, ret |-> "-",
                                         enq |-> FALSE]]
         /\ lbMIssued' = (lbMIssued \/ p = "m")
    /\ lbIssued' = lbIssued + 1
    /\ UNCHANGED <<qrVars, mwVars, kind, env, mode, fault, lbReady, lbC, lbCClosed, lbCtx, lbAdd,
                   lbW, lbCloses, lbMAcc, lbMWrote, lbMFailedOn>>

\* The caller's context is cancelled while the call is in progress.
LbWriteCancel(k) ==
    /\ Running /\ kind = "lb"
    /\ lbWr[k].pc \in {"lock", "select"}
    /\ ~lbWr[k].cancelled
    /\ lbWr' = [lbWr EXCEPT ![k].cancelled = TRUE]
    /\ UNCHANGED <<qrVars, mwVars, kind, env, mode, fault, lbReady, lbC, lbCClosed, lbCtx, lbAdd,
                   lbW, lbIssued, lbCloses, lbMIssued, lbMAcc, lbMWrote, lbMFailedOn>>

\* write: lw.sem.lock()
LbWriteLock(k) ==
    /\ Running /\ kind = "lb"
    /\ lbWr[k].pc = "lock"
    /\ LockPasses(lbReady)
    /\ lbWr' = [lbWr EXCEPT ![k].pc = "select"]
    /\ UNCHANGED <<qrVars, mwVars, kind, env, mode, fault, lbReady, lbC, lbCClosed, lbCtx, lbAdd,
                   lbW, lbIssued, lbCloses, lbMIssued, lbMAcc, lbMWrote, lbMFailedOn>>

\* A write that reports success when its context is done.
LbCtxErrNil(cancelled) == "nil"

\* ctx.Err(): non-nil once ctx is done, nil before.
LbCtxErr(cancelled) == IF cancelled THEN "ctxerr" ELSE "nil"

\* write: select, case <-ctx.Done(): return ctx.Err()
LbWriteCtxDone(k) ==
    /\ Running /\ kind = "lb"
    /\ lbWr[k].pc = "select"
    /\ lbWr[k].cancelled
    /\ lbWr' = [lbWr EXCEPT ![k].pc = "ret",
                            ![k].ret = LbCtxErr(lbWr[k].cancelled)]
    /\ UNCHANGED <<qrVars, mwVars, kind, env, mode, fault, lbReady, lbC, lbCClosed, lbCtx, lbAdd,
                   lbW, lbIssued, lbCloses, lbMIssued, lbMAcc, lbMWrote, lbMFailedOn>>

\* write: select, case lw.c <- msg: return nil. A send on a closed channel
\* is ready at once and panics.
LbWriteSend(k) ==
    /\ Running /\ kind = "lb"
    /\ lbWr[k].pc = "select"
    /\ IF lbCClosed
         THEN /\ fault' = "send on closed channel lw.c"
              /\ UNCHANGED <<lbC, lbWr, lbMAcc>>
         ELSE /\ Len(lbC) < size
              /\ lbC' = Append(lbC, lbWr[k].msg)
              /\ lbWr' = [lbWr EXCEPT ![k].pc = "ret", ![k].ret = "nil",
                                      ![k].enq = TRUE]
              /\ lbMAcc' = (lbMAcc \/ lbWr[k].msg = "m")
              /\ UNCHANGED fault
    /\ UNCHANGED <<qrVars, mwVars, kind, env, mode, lbReady, lbCClosed, lbCtx, lbAdd, lbW,
                   lbIssued, lbCloses, lbMIssued, lbMWrote, lbMFailedOn>>

\* The caller has its result and is free to call again.
LbWriteReturn(k) ==
    /\ Running /\ kind = "lb"
    /\ lbWr[k].pc = "ret"
    /\ lbWr' = [lbWr EXCEPT ![k] = LbIdleCall]
    /\ UNCHANGED <<qrVars, mwVars, kind, env, mode, fault, lbReady, lbC, lbCClosed, lbCtx, lbAdd,
                   lbW, lbIssued, lbCloses, lbMIssued, lbMAcc, lbMWrote, lbMFailedOn>>

\* listen: deferred w.Close() and lw.rmConn(w) (a no-op) on return.
LbWorkerGone == [pc |-> "done", msg |-> NoMsg]

\* listen: select, case <-ctx.Done(): return
LbListenCtxDone(c) ==
    /\ Running /\ kind = "lb"
    /\ lbW[c].pc = "select"
    /\ lbCtx
    /\ lbW' = [lbW EXCEPT ![c] = LbWorkerGone]
    /\ UNCHANGED <<qrVars, mwVars, kind, env, mode, fault, lbReady, lbC, lbCClosed, lbCtx, lbAdd,
                   lbWr, lbIssued, lbCloses, lbMIssued, lbMAcc, lbMWrote, lbMFailedOn>>

\* listen: select, case msg, ok := <-lw.c with a buffered message.
LbListenRecv(c) ==
    /\ Running /\ kind = "lb"
    /\ lbW[c].pc = "select"
    /\ lbC # <<>>
    /\ lbW' = [lbW EXCEPT ![c] = [pc |-> "write", msg |-> Head(lbC)]]
    /\ lbC' = Tail(lbC)
    /\ UNCHANGED <<qrVars, mwVars, kind, env, mode, fault, lbReady, lbCClosed, lbCtx, lbAdd,
                   lbWr, lbIssued, lbCloses, lbMIssued, lbMAcc, lbMWrote, lbMFailedOn>>

\* listen: select, case msg, ok := <-lw.c on the closed, drained channel:
\* !ok, return.
LbListenClosed(c) ==
    /\ Running /\ kind = "lb"
    /\ lbW[c].pc = "select"
    /\ lbC = <<>> /\ lbCClosed
    /\ lbW' = [lbW EXCEPT ![c] = LbWorkerGone]
    /\ UNCHANGED <<qrVars, mwVars, kind, env, mode, fault, lbReady, lbC, lbCClosed, lbCtx, lbAdd,
                   lbWr, lbIssued, lbCloses, lbMIssued, lbMAcc, lbMWrote, lbMFailedOn>>

\* The outcomes w.write(ctx, msg) (Conn.SendMsg) can have on connection c.
SendOutcomes(md) ==
    CASE md = "ok" -> {TRUE}
      [] md = "fail" -> {FALSE}
      [] OTHER -> {TRUE, FALSE}

\* A worker that puts the message back whatever the write returned.
LbRequeueAlways(ok) == TRUE

\* listen: if err != nil { lw.c <- msg }
LbRequeueNeeded(ok) == ~ok

\* listen: err := w.write(ctx, msg); on an error go on to requeue.
LbListenWrite(c) ==
    /\ Running /\ kind = "lb"
    /\ lbW[c].pc = "write"
    /\ \E ok \in SendOutcomes(mode[c]) :
         /\ lbMWrote' = lbMWrote + (IF ok /\ lbW[c].msg = "m" THEN 1 ELSE 0)
         /\ lbMFailedOn' = IF ~ok /\ lbW[c].msg = "m" THEN c ELSE lbMFailedOn
         /\ lbW' = [lbW EXCEPT ![c] = IF LbRequeueNeeded(ok)
                                        THEN [pc |-> "requeue", msg |-> lbW[c].msg]
                                        ELSE [pc |-> "select", msg |-> NoMsg]]
    /\ UNCHANGED <<qrVars, mwVars, kind, env, mode, fault, lbReady, lbC, lbCClosed, lbCtx, lbAdd,
                   lbWr, lbIssued, lbCloses, lbMIssued, lbMAcc>>

\* listen: lw.c <- msg, a plain send: it blocks while the buffer is full and
\* panics on a closed channel.
LbListenRequeue(c) ==
    /\ Running /\ kind = "lb"
    /\ lbW[c].pc = "requeue"
    /\ IF lbCClosed
         THEN /\ fault' = "send on closed channel lw.c"
              /\ UNCHANGED <<lbC, lbW>>
         ELSE /\ Len(lbC) < size
              /\ lbC' = Append(lbC, lbW[c].msg)
              /\ lbW' = [lbW EXCEPT ![c] = [pc |-> "select", msg |-> NoMsg]]
              /\ UNCHANGED fault
    /\ UNCHANGED <<qrVars, mwVars, kind, env, mode, lbReady, lbCClosed, lbCtx, lbAdd, lbWr,
                   lbIssued, lbCloses, lbMIssued, lbMAcc, lbMWrote, lbMFailedOn>>

\* Close: close(lw.c); closing a closed channel panics.
LbClose ==
    /\ Running /\ kind = "lb"
    /\ lbCloses < MaxCloses
    /\ IF lbCClosed
         THEN /\ fault' = "close of closed channel lw.c"
              /\ UNCHANGED <<lbCClosed, lbCloses>>
         ELSE /\ lbCClosed' = TRUE
              /\ lbCloses' = lbCloses + 1
              /\ UNCHANGED fault
    /\ UNCHANGED <<qrVars, mwVars, kind, env, mode, lbReady, lbC, lbCtx, lbAdd, lbW, lbWr,
                   lbIssued, lbMIssued, lbMAcc, lbMWrote, lbMFailedOn>>

\* The context the pool was created with is cancelled.
LbCancel ==
    /\ Running /\ kind = "lb"
    /\ ~lbCtx
    /\ lbCtx' = TRUE
    /\ UNCHANGED <<qrVars, mwVars, kind, env, mode, fault, lbReady, lbC, lbCClosed, lbAdd, lbW,
                   lbWr, lbIssued, lbCloses, lbMIssued, lbMAcc, lbMWrote, lbMFailedOn>>

LbWorkerStep(c) ==
    \/ LbListenCtxDone(c)
    \/ LbListenRecv(c)
    \/ LbListenClosed(c)
    \/ LbListenWrite(c)
    \/ LbListenRequeue(c)

LbCallStep(k) ==
    \/ LbWriteLock(k)
    \/ LbWriteCtxDone(k)
    \/ LbWriteSend(k)

LbAddStep(c) ==
    \/ LbAddConnClose(c)
    \/ LbAddConnGo(c)

NextLB ==
    \/ \E c \in Conn : LbAddConnEnable(c) \/ LbAddStep(c) \/ LbWorkerStep(c)
    \/ \E k \in Caller : LbWriteCall(k) \/ LbWriteCancel(k) \/ LbCallStep(k)
                           \/ LbWriteReturn(k)
    \/ LbClose
    \/ LbCancel

\* --------------------------------------------------------------- qreader
\* A message of a connection: its number on that connection and its error.
\* The zero Msg is what a caller of read passes in.
ZeroMsg == [c |-> 0, n |-> 0, err |-> FALSE]
DataMsg(c, n) == [c |-> c, n |-> n, err |-> FALSE]
FailMsg(c) == [c |-> c, n |-> 0, err |-> TRUE]

QrIdleCall == [pc |-> "idle", cancelled |-> FALSE, took |-> FALSE, ret |-> "-"]
QrOffWorker == [pc |-> "off", msg |-> ZeroMsg]

\* The goroutines that may call Close, and a Close call: n is the length of
\* q.rs when the range began, i the next index of the loop, pend the adapters
\* whose Close goroutine of the group has been started and has not run.
Closer == 1..MaxCloses
QrIdleClose == [pc |-> "idle", n |-> 0, i |-> 0, pend |-> {}]

InitQR ==
    /\ qrReady = FALSE
    /\ qrC = <<>>
    /\ qrCtx = FALSE
    /\ qrRs = <<>>
    /\ qrRLocks = 0
    /\ qrCl = [j \in Closer |-> QrIdleClose]
    /\ qrCloses = 0
    /\ qrAdd = [c \in Conn |-> "idle"]
    /\ qrW = [c \in Conn |-> QrOffWorker]
    /\ qrConn = [c \in Conn |-> [prod |-> 0, closed |-> 0]]
    /\ qrRd = [k \in Caller |-> QrIdleCall]
    /\ qrCnt = [c \in Conn |-> 0]
    /\ qrLast = [c \in Conn |-> 0]
    /\ qrErrEnq = [c \in Conn |-> 0]
    /\ qrErrGot = [c \in Conn |-> 0]

\* rmConn: q.rs without its first occurrence of r.
RECURSIVE RemoveFirst(_, _)
RemoveFirst(rs, r) ==
    IF rs = <<>> THEN <<>>
    ELSE IF Head(rs) = r THEN Tail(rs)
    ELSE <<Head(rs)>> \o RemoveFirst(Tail(rs), r)

\* addConn(r): go q.listen(q.ctx, r)
QrAddConnGo(c) ==
    /\ Running /\ kind = "qr"
    /\ c \in env.conns
    /\ qrAdd[c] = "idle"
    /\ qrAdd' = [qrAdd EXCEPT ![c] = "reg"]
    /\ qrW' = [qrW EXCEPT ![c] = [pc |-> "read", msg |-> ZeroMsg]]
    /\ UNCHANGED <<lbVars, mwVars, kind, fault, env, mode, qrReady, qrC, qrCtx, qrRs,
                   qrRLocks, qrCl, qrCloses, qrConn, qrRd, qrCnt, qrLast, qrErrEnq,
                   qrErrGot>>

\* addConn(r): q.mu.Lock(); q.sem.enable(); q.rs = append(q.rs, r); Unlock.
\* enable runs under the mutex: its select and its close are one step here.
QrAddConnReg(c) ==
    /\ Running /\ kind = "qr"
    /\ qrAdd[c] = "reg"
    /\ qrRLocks = 0
    /\ qrReady' = TRUE
    /\ fault' = IF ~EnableSeesClosed(qrReady) /\ CloseReadyFault(qrReady)
                  THEN "close of closed channel sem.ready" ELSE fault
    /\ qrRs' = Append(qrRs, c)
    /\ qrAdd' = [qrAdd EXCEPT ![c] = "done"]
    /\ UNCHANGED <<lbVars, mwVars, kind, env, mode, qrC, qrCtx, qrRLocks, qrCl, qrCloses,
                   qrW, qrConn, qrRd, qrCnt, qrLast, qrErrEnq, qrErrGot>>

\* What r.read(ctx, &msg) can return on connection c: the next message of
\* the peer, or a failure (the only outcome once the connection is closed).
ReadOutcomes(c) ==
    (IF qrConn[c].closed = 0 /\ qrConn[c].prod < env.prod[c]
       THEN {DataMsg(c, qrConn[c].prod + 1)} ELSE {})
    \cup (IF qrConn[c].closed > 0 \/ mode[c] # "ok" THEN {FailMsg(c)} ELSE {})

\* listen: err := r.read(ctx, &msg), a blocking read, returns; msgReader.read
\* does not look at ctx.
QrListenRead(c) ==
    /\ Running /\ kind = "qr"
    /\ qrW[c].pc = "read"
    /\ \E m \in ReadOutcomes(c) :
         /\ qrConn' = [qrConn EXCEPT ![c].prod = IF m.err THEN @ ELSE @ + 1]
         /\ qrW' = [qrW EXCEPT ![c] = [pc |-> "select", msg |-> m]]
    /\ UNCHANGED <<lbVars, mwVars, kind, fault, env, mode, qrReady, qrC, qrCtx, qrRs,
                   qrRLocks, qrCl, qrCloses, qrAdd, qrRd, qrCnt, qrLast, qrErrEnq,
                   qrErrGot>>

\* listen: select { case <-ctx.Done(): return; default: (q.c <- msg) }: with
\* ctx done the worker returns and the message it read is dropped.
QrListenSelect(c) ==
    /\ Running /\ kind = "qr"
    /\ qrW[c].pc = "select"
    /\ qrW' = [qrW EXCEPT ![c] = IF qrCtx
                                   THEN [pc |-> "close", msg |-> ZeroMsg]
                                   ELSE [pc |-> "send", msg |-> qrW[c].msg]]
    /\ UNCHANGED <<lbVars, mwVars, kind, fault, env, mode, qrReady, qrC, qrCtx, qrRs,
                   qrRLocks, qrCl, qrCloses, qrAdd, qrConn, qrRd, qrCnt, qrLast,
                   qrErrEnq, qrErrGot>>

\* A worker that never waits for room: select { case q.c <- msg: default: }.
QrSendOrSkip(q, m) == IF Len(q) < qrsize THEN {Append(q, m)} ELSE {q}

\* q.c <- msg: the queues the plain send can leave behind. With room in the
\* buffer the value goes behind those already there; with none the send
\* blocks, and there is no outcome.
QrSend(q, m) == IF Len(q) < qrsize THEN {Append(q, m)} ELSE {}

\* A worker that goes on reading after a failed read.
QrAfterSendLoop(m) == "read"

\* listen, after q.c <- msg: if err != nil { return }, else the loop goes on.
QrAfterSend(m) == IF m.err THEN "close" ELSE "read"

\* listen: q.c <- msg, a plain send that blocks while the buffer is full;
\* then return if err != nil, else loop.
QrListenSend(c) ==
    /\ Running /\ kind = "qr"
    /\ qrW[c].pc = "send"
    /\ \E q \in QrSend(qrC, qrW[c].msg) : qrC' = q
    /\ qrErrEnq' = [qrErrEnq EXCEPT ![c] = @ + (IF qrW[c].msg.err THEN 1 ELSE 0)]
    /\ qrW' = [qrW EXCEPT ![c] = [pc |-> QrAfterSend(qrW[c].msg),
                                  msg |-> ZeroMsg]]
    /\ UNCHANGED <<lbVars, mwVars, kind, fault, env, mode, qrReady, qrCtx, qrRs,
                   qrRLocks, qrCl, qrCloses, qrAdd, qrConn, qrRd, qrCnt, qrLast,
                   qrErrGot>>

\* listen returns: defer r.Close()
QrListenClose(c) ==
    /\ Running /\ kind = "qr"
    /\ qrW[c].pc = "close"
    /\ qrConn' = [qrConn EXCEPT ![c].closed = @ + 1]
    /\ qrW' = [qrW EXCEPT ![c].pc = "rm"]
    /\ UNCHANGED <<lbVars, mwVars, kind, fault, env, mode, qrReady, qrC, qrCtx, qrRs,
                   qrRLocks, qrCl, qrCloses, qrAdd, qrRd, qrCnt, qrLast, qrErrEnq,
                   qrErrGot>>

\* listen returns: defer q.rmConn(r), under q.mu.Lock().
QrListenRmConn(c) ==
    /\ Running /\ kind = "qr"
    /\ qrW[c].pc = "rm"
    /\ qrRLocks = 0
    /\ qrRs' = RemoveFirst(qrRs, c)
    /\ qrW' = [qrW EXCEPT ![c].pc = "done"]
    /\ UNCHANGED <<lbVars, mwVars, kind, fault, env, mode, qrReady, qrC, qrCtx,
                   qrRLocks, qrCl, qrCloses, qrAdd, qrConn, qrRd, qrCnt, qrLast,
                   qrErrEnq, qrErrGot>>

\* The application calls q.read(ctx, &msg) with msg a zero Msg; ctx may
\* already be cancelled.
QrReadCall(k) ==
    /\ Running /\ kind = "qr"
    /\ k \in env.callers
    /\ qrRd[k].pc = "idle"
    /\ \E cn \in BOOLEAN :
         qrRd' = [qrRd EXCEPT ![k] = [pc |-> "lock", cancelled |-> cn,
                                      took |-> FALSE, ret |-> "-"]]
    /\ UNCHANGED <<lbVars, mwVars, kind, fault, env, mode, qrReady, qrC, qrCtx, qrRs,
                   qrRLocks, qrCl, qrCloses, qrAdd, qrW, qrConn, qrCnt, qrLast,
                   qrErrEnq, qrErrGot>>

\* The caller's context is cancelled while the call is in progress.
QrReadCancel(k) ==
    /\ Running /\ kind = "qr"
    /\ qrRd[k].pc \in {"lock", "select"}
    /\ ~qrRd[k].cancelled
    /\ qrRd' = [qrRd EXCEPT ![k].cancelled = TRUE]
    /\ UNCHANGED <<lbVars, mwVars, kind, fault, env, mode, qrReady, qrC, qrCtx, qrRs,
                   qrRLocks, qrCl, qrCloses, qrAdd, qrW, qrConn, qrCnt, qrLast,
                   qrErrEnq, qrErrGot>>

\* read: q.sem.lock()
QrReadLock(k) ==
    /\ Running /\ kind = "qr"
    /\ qrRd[k].pc = "lock"
    /\ LockPasses(qrReady)
    /\ qrRd' = [qrRd EXCEPT ![k].pc = "select"]
    /\ UNCHANGED <<lbVars, mwVars, kind, fault, env, mode, qrReady, qrC, qrCtx, qrRs,
                   qrRLocks, qrCl, qrCloses, qrAdd, qrW, qrConn, qrCnt, qrLast,
                   qrErrEnq, qrErrGot>>

\* What read returns: msg.err of the caller's Msg as it then is.
QrReadResult(msg) == IF msg.err THEN "err" ELSE "nil"

\* read: select, case <-ctx.Done(): nothing is assigned; return msg.err
QrReadCtxDone(k) ==
    /\ Running /\ kind = "qr"
    /\ qrRd[k].pc = "select"
    /\ qrRd[k].cancelled
    /\ qrRd' = [qrRd EXCEPT ![k].pc = "ret",
                            ![k].ret = QrReadResult(ZeroMsg)]
    /\ UNCHANGED <<lbVars, mwVars, kind, fault, env, mode, qrReady, qrC, qrCtx, qrRs,
                   qrRLocks, qrCl, qrCloses, qrAdd, qrW, qrConn, qrCnt, qrLast,
                   qrErrEnq, qrErrGot>>

\* read: select, case *msg = <-q.c; return msg.err
QrReadRecv(k) ==
    /\ Running /\ kind = "qr"
    /\ qrRd[k].pc = "select"
    /\ qrC # <<>>
    /\ LET m == Head(qrC) IN
         /\ qrRd' = [qrRd EXCEPT ![k].pc = "ret", ![k].took = TRUE,
                                 ![k].ret = QrReadResult(m)]
         /\ IF m.err
              THEN /\ qrErrGot' = [qrErrGot EXCEPT ![m.c] = @ + 1]
                   /\ UNCHANGED <<qrCnt, qrLast>>
              ELSE /\ qrCnt' = [qrCnt EXCEPT ![m.c] = @ + 1]
                   /\ qrLast' = [qrLast EXCEPT ![m.c] = m.n]
                   /\ UNCHANGED qrErrGot
    /\ qrC' = Tail(qrC)
    /\ UNCHANGED <<lbVars, mwVars, kind, fault, env, mode, qrReady, qrCtx, qrRs,
                   qrRLocks, qrCl, qrCloses, qrAdd, qrW, qrConn, qrErrEnq>>

\* The caller has its result and is free to call again.
QrReadReturn(k) ==
    /\ Running /\ kind = "qr"
    /\ qrRd[k].pc = "ret"
    /\ qrRd' = [qrRd EXCEPT ![k] = QrIdleCall]
    /\ UNCHANGED <<lbVars, mwVars, kind, fault, env, mode, qrReady, qrC, qrCtx, qrRs,
                   qrRLocks, qrCl, qrCloses, qrAdd, qrW, qrConn, qrCnt, qrLast,
                   qrErrEnq, qrErrGot>>

\* Close: q.mu.RLock(); for i := range q.rs: the range expression is
\* evaluated once, so the loop runs len(q.rs) times. A read lock does not keep
\* other Close calls out.
QrCloseBegin(j) ==
    /\ Running /\ kind = "qr"
    /\ qrCl[j].pc = "idle"
    /\ \A h \in Closer : h < j => qrCl[h].pc # "idle"
    /\ qrRLocks + qrCloses < MaxCloses
    /\ qrRLocks' = qrRLocks + 1
    /\ qrCl' = [qrCl EXCEPT ![j] = [pc |-> "loop", n |-> Len(qrRs), i |-> 1,
                                    pend |-> {}]]
    /\ UNCHANGED <<lbVars, mwVars, kind, fault, env, mode, qrReady, qrC, qrCtx, qrRs,
                   qrCloses, qrAdd, qrW, qrConn, qrRd, qrCnt, qrLast, qrErrEnq,
                   qrErrGot>>

\* Close, loop body: grp.Go(q.rs[i].Close) reads q.rs again. Another Close may
\* have set q.rs = nil under its own read lock meanwhile (a data race): the
\* index is then out of range, or the torn slice has no array, and the
\* program panics.
QrCloseGo(j) ==
    /\ Running /\ kind = "qr"
    /\ qrCl[j].pc = "loop"
    /\ qrCl[j].i <= qrCl[j].n
    /\ IF qrCl[j].i <= Len(qrRs)
         THEN /\ qrCl' = [qrCl EXCEPT ![j].i = @ + 1,
                                      ![j].pend = @ \cup {qrRs[qrCl[j].i]}]
              /\ UNCHANGED fault
         ELSE /\ fault' = "index out of range q.rs"
              /\ UNCHANGED qrCl
    /\ UNCHANGED <<lbVars, mwVars, kind, env, mode, qrReady, qrC, qrCtx, qrRs,
                   qrRLocks, qrCloses, qrAdd, qrW, qrConn, qrRd, qrCnt, qrLast,
                   qrErrEnq, qrErrGot>>

\* Close: a goroutine of the group runs r.Close() on its adapter.
QrCloseConn(j, c) ==
    /\ Running /\ kind = "qr"
    /\ c \in qrCl[j].pend
    /\ qrCl' = [qrCl EXCEPT ![j].pend = @ \ {c}]
    /\ qrConn' = [qrConn EXCEPT ![c].closed = @ + 1]
    /\ UNCHANGED <<lbVars, mwVars, kind, fault, env, mode, qrReady, qrC, qrCtx, qrRs,
                   qrRLocks, qrCloses, qrAdd, qrW, qrRd, qrCnt, qrLast, qrErrEnq,
                   qrErrGot>>

\* Close: err = grp.Wait() returns when every goroutine has run; q.rs = nil;
\* q.mu.RUnlock(); return err
QrCloseEnd(j) ==
    /\ Running /\ kind = "qr"
    /\ qrCl[j].pc = "loop"
    /\ qrCl[j].i > qrCl[j].n
    /\ qrCl[j].pend = {}
    /\ qrRs' = <<>>
    /\ qrRLocks' = qrRLocks - 1
    /\ qrCl' = [qrCl EXCEPT ![j] = QrIdleClose]
    /\ qrCloses' = qrCloses + 1
    /\ UNCHANGED <<lbVars, mwVars, kind, fault, env, mode, qrReady, qrC, qrCtx, qrAdd,
                   qrW, qrConn, qrRd, qrCnt, qrLast, qrErrEnq, qrErrGot>>

\* The context the pool was created with is cancelled.
QrCancel ==
    /\ Running /\ kind = "qr"
    /\ ~qrCtx
    /\ qrCtx' = TRUE
    /\ UNCHANGED <<lbVars, mwVars, kind, fault, env, mode, qrReady, qrC, qrRs,
                   qrRLocks, qrCl, qrCloses, qrAdd, qrW, qrConn, qrRd, qrCnt, qrLast,
                   qrErrEnq, qrErrGot>>

QrWorkerStep(c) ==
    \/ QrListenRead(c)
    \/ QrListenSelect(c)
    \/ QrListenSend(c)
    \/ QrListenClose(c)
    \/ QrListenRmConn(c)

QrCloserStep(j) ==
    \/ QrCloseGo(j)
    \/ \E c \in Conn : QrCloseConn(j, c)
    \/ QrCloseEnd(j)

QrCallStep(k) ==
    \/ QrReadLock(k)
    \/ QrReadCtxDone(k)
    \/ QrReadRecv(k)

\* The pool at work: adapters are added, workers and read calls run.
QrRun ==
    \/ \E c \in Conn : QrAddConnGo(c) \/ QrAddConnReg(c) \/ QrWorkerStep(c)
    \/ \E k \in Caller : QrReadCall(k) \/ QrReadCancel(k) \/ QrCallStep(k)
                           \/ QrReadReturn(k)

NextQR ==
    \/ QrRun
    \/ \E j \in Closer : QrCloseBegin(j) \/ QrCloserStep(j)
    \/ QrCancel

\* --------------------------------------------------------------- mwriter
\* Messages of the broadcast pool are numbered in the order of the calls.
MwIdleCall == [pc |-> "idle", msg |-> 0, snap |-> <<>>, pend |-> {},
               att |-> <<>>, failed |-> {}, ret |-> "-"]

InitMW ==
    /\ mwReady = FALSE
    /\ mwWs = <<>>
    /\ mwMu = 0
    /\ mwAdd = [c \in Conn |-> "idle"]
    /\ mwConn = [c \in Conn |-> [log |-> <<>>, closed |-> 0]]
    /\ mwWr = [k \in Caller |-> MwIdleCall]
    /\ mwIssued = 0
    /\ mwCloses = 0

\* addConn(w): mw.mu.Lock(); mw.sem.enable(); mw.ws = append(mw.ws, w); Unlock.
\* enable runs under the mutex: its select and its close are one step here.
MwAddConn(c) ==
    /\ Running /\ kind = "mw"
    /\ c \in env.conns
    /\ mwAdd[c] = "idle"
    /\ mwMu = 0
    /\ mwReady' = TRUE
    /\ fault' = IF ~EnableSeesClosed(mwReady) /\ CloseReadyFault(mwReady)
                  THEN "close of closed channel sem.ready" ELSE fault
    /\ mwWs' = Append(mwWs, c)
    /\ mwAdd' = [mwAdd EXCEPT ![c] = "done"]
    /\ UNCHANGED <<lbVars, qrVars, kind, env, mode, mwMu, mwConn, mwWr,
                   mwIssued, mwCloses>>

\* rmConn(w), called by the socket when a connection goes away, under mw.mu.
MwRmConn(c) ==
    /\ Running /\ kind = "mw"
    /\ mwAdd[c] = "done"
    /\ mwMu = 0
    /\ mwWs' = RemoveFirst(mwWs, c)
    /\ mwAdd' = [mwAdd EXCEPT ![c] = "removed"]
    /\ UNCHANGED <<lbVars, qrVars, kind, fault, env, mode, mwReady, mwMu,
                   mwConn, mwWr, mwIssued, mwCloses>>

\* Close: under w.mu, ww.Close() for every adapter in turn; w.ws = nil.
MwClose ==
    /\ Running /\ kind = "mw"
    /\ mwCloses < MaxCloses
    /\ mwMu = 0
    /\ mwConn' = [c \in Conn |->
                    [mwConn[c] EXCEPT !.closed =
                        @ + Cardinality({i \in 1..Len(mwWs) : mwWs[i] = c})]]
    /\ mwWs' = <<>>
    /\ mwCloses' = mwCloses + 1
    /\ UNCHANGED <<lbVars, qrVars, kind, fault, env, mode, mwReady, mwMu,
                   mwAdd, mwWr, mwIssued>>

\* The application calls w.write(ctx, msg). Nothing in mwriter.write or in
\* msgWriter.write reads ctx, so the call is the same for every ctx.
MwWriteCall(k) ==
    /\ Running /\ kind = "mw"
    /\ k \in env.callers
    /\ mwWr[k].pc = "idle"
    /\ mwIssued < env.msgs
    /\ mwIssued' = mwIssued + 1
    /\ mwWr' = [mwWr EXCEPT ![k] = [MwIdleCall EXCEPT !.pc = "lock",
                                                      !.msg = mwIssued + 1]]
    /\ UNCHANGED <<lbVars, qrVars, kind, fault, env, mode, mwReady, mwWs, mwMu,
                   mwAdd, mwConn, mwCloses>>

\* write: w.sem.lock()
MwWriteLock(k) ==
    /\ Running /\ kind = "mw"
    /\ mwWr[k].pc = "lock"
    /\ LockPasses(mwReady)
    /\ mwWr' = [mwWr EXCEPT ![k].pc = "mu"]
    /\ UNCHANGED <<lbVars, qrVars, kind, fault, env, mode, mwReady, mwWs, mwMu,
                   mwAdd, mwConn, mwIssued, mwCloses>>

\* A write that starts its goroutines without keeping the mutex.
MwMuNotKept(k) == 0

\* w.mu.Lock() of write: the mutex is held by caller k until its Unlock.
MwMuLocked(k) == k

\* write: w.mu.Lock(); for i := range w.ws { grp.Go(ww.write) }: one goroutine
\* is started for every adapter registered at this moment.
MwWriteSpawn(k) ==
    /\ Running /\ kind = "mw"
    /\ mwWr[k].pc = "mu"
    /\ mwMu = 0
    /\ mwMu' = MwMuLocked(k)
    /\ mwWr' = [mwWr EXCEPT ![k].pc = "wait", ![k].snap = mwWs,
                            ![k].pend = 1..Len(mwWs),
                            ![k].att = [i \in 1..Len(mwWs) |-> 0]]
    /\ UNCHANGED <<lbVars, qrVars, kind, fault, env, mode, mwReady, mwWs,
                   mwAdd, mwConn, mwIssued, mwCloses>>

\* A group that gives up the writes not yet started when one has failed.
MwPendFailFast(pend, i, ok) == IF ok THEN pend \ {i} ELSE {}

\* The goroutines still to run once goroutine i of the group has run.
MwPendAfter(pend, i, ok) == pend \ {i}

\* write: goroutine i of the group runs ww.write(ctx, msg); msgWriter.write
\* does not look at ctx.
MwWriteConn(k, i) ==
    /\ Running /\ kind = "mw"
    /\ mwWr[k].pc = "wait"
    /\ i \in mwWr[k].pend
    /\ LET c == mwWr[k].snap[i] IN
       \E ok \in SendOutcomes(mode[c]) :
         /\ mwWr' = [mwWr EXCEPT ![k].pend = MwPendAfter(@, i, ok),
                                 ![k].att[i] = @ + 1,
                                 ![k].failed = IF ok THEN @ ELSE @ \cup {i}]
         /\ mwConn' = [mwConn EXCEPT ![c].log =
                          IF ok THEN Append(@, mwWr[k].msg) ELSE @]
    /\ UNCHANGED <<lbVars, qrVars, kind, fault, env, mode, mwReady, mwWs, mwMu,
                   mwAdd, mwIssued, mwCloses>>

\* grp.Wait(): the first non-nil error of the group, nil when there is none.
MwWaitResult(failed) == IF failed # {} THEN "err" ELSE "nil"

\* write: err := grp.Wait(); w.mu.Unlock(); return err
MwWriteWait(k) ==
    /\ Running /\ kind = "mw"
    /\ mwWr[k].pc = "wait"
    /\ mwWr[k].pend = {}
    /\ mwMu' = 0
    /\ mwWr' = [mwWr EXCEPT ![k].pc = "ret",
                            ![k].ret = MwWaitResult(mwWr[k].failed)]
    /\ UNCHANGED <<lbVars, qrVars, kind, fault, env, mode, mwReady, mwWs,
                   mwAdd, mwConn, mwIssued, mwCloses>>

\* The caller has its result and is free to call again.
MwWriteReturn(k) ==
    /\ Running /\ kind = "mw"
    /\ mwWr[k].pc = "ret"
    /\ mwWr' = [mwWr EXCEPT ![k] = MwIdleCall]
    /\ UNCHANGED <<lbVars, qrVars, kind, fault, env, mode, mwReady, mwWs, mwMu,
                   mwAdd, mwConn, mwIssued, mwCloses>>

NextMW ==
    \/ \E c \in Conn : MwAddConn(c) \/ MwRmConn(c)
    \/ MwClose
    \/ \E k \in Caller : MwWriteCall(k) \/ MwWriteLock(k) \/ MwWriteSpawn(k)
                           \/ MwWriteWait(k) \/ MwWriteReturn(k)
    \/ \E k \in Caller, i \in 1..NConns : MwWriteConn(k, i)

\* ------------------------------------------------------------------ specs
\* The general case: two adapters (a race needs two), a few messages,
\* connections whose writes may fail at any time.
GeneralEnv(kd) ==
    [conns |-> IF kd = "qr" THEN {1} ELSE {1, 2},
     callers |-> IF kd = "qr" THEN {1} ELSE {1, 2},
     msgs |-> MaxMsgs + 1,
     prod |-> [c \in Conn |-> IF c = 1 THEN MaxMsgs ELSE 0]]

\* In the general case of the read pool, connection 1 is a peer that sends and
\* may fail at any time; the others are silent until they are closed.
GeneralMode(kd) ==
    [c \in Conn |-> IF kd = "qr" /\ c # 1 THEN "ok" ELSE "flaky"]

\* One connection that always succeeds or always fails, one caller, and
\* enough messages to overfill the queue.
OneConnEnv == [conns |-> {1}, callers |-> {1}, msgs |-> FullMsgs,
               prod |-> [c \in Conn |-> FullMsgs]]

\* Two connections, one producing enough messages to overfill the queue and
\* one producing a single message, and one caller.
FullQueueEnv == [conns |-> {1, 2}, callers |-> {1}, msgs |-> FullMsgs,
                 prod |-> [c \in Conn |-> IF c = 1 THEN qrsize + 1 ELSE 1]]

\* Two connections producing a few messages, and two concurrent callers.
TwoCallersEnv == [conns |-> {1, 2}, callers |-> {1, 2}, msgs |-> MaxMsgs + 1,
                  prod |-> [c \in Conn |-> IF c = 1 THEN MaxMsgs + 1 ELSE 1]]

Init ==
    /\ kind \in {"qr", "mw", "lb"}
    /\ fault = "none"
    /\ env = GeneralEnv(kind)
    /\ mode = GeneralMode(kind)
    /\ InitLB
    /\ InitQR
    /\ InitMW

Next == NextQR \/ NextMW \/ NextLB

\* A broadcast to every adapter by one caller.
FanOutEnv == [conns |-> Conn, callers |-> {1}, msgs |-> 1,
              prod |-> [c \in Conn |-> 0]]

InitMWFan ==
    /\ kind = "mw"
    /\ fault = "none"
    /\ env = FanOutEnv
    /\ mode = [c \in Conn |-> "flaky"]
    /\ InitLB
    /\ InitQR
    /\ InitMW

SpecMWFan == InitMWFan /\ [][NextMW]_vars

InitQRFull ==
    /\ kind = "qr"
    /\ fault = "none"
    /\ \/ env = FullQueueEnv /\ mode = GeneralMode("qr")
       \/ env = TwoCallersEnv /\ mode = [c \in Conn |-> "flaky"]
    /\ InitLB
    /\ InitQR
    /\ InitMW

\* The read pool at work, with no Close and no cancellation of its context.
SpecQRFull == InitQRFull /\ [][QrRun]_vars

Spec == Init /\ [][Next]_vars

InitLBOne ==
    /\ kind = "lb"
    /\ fault = "none"
    /\ env = OneConnEnv
    /\ mode \in {[c \in Conn |-> md] : md \in {"ok", "fail"}}
    /\ InitLB
    /\ InitQR
    /\ InitMW

\* Goroutines that can take a step are scheduled; the application is not
\* obliged to call, cancel or close.
LbFairness ==
    /\ \A c \in Conn : WF_vars(LbWorkerStep(c)) /\ WF_vars(LbAddStep(c))
    /\ \A k \in Caller : WF_vars(LbCallStep(k))

SpecLBOne == InitLBOne /\ [][NextLB]_vars /\ LbFairness


InitQROne ==
    /\ kind = "qr"
    /\ fault = "none"
    /\ env = OneConnEnv
    /\ mode = [c \in Conn |-> "ok"]
    /\ InitLB
    /\ InitQR
    /\ InitMW

\* Goroutines that can take a step are scheduled, and a Close in progress
\* goes on to return; the application is not obliged to read, cancel or close.
QrFairness ==
    /\ \A c \in Conn : WF_vars(QrWorkerStep(c)) /\ WF_vars(QrAddConnReg(c))
    /\ \A k \in Caller : WF_vars(QrCallStep(k))
    /\ \A j \in Closer : WF_vars(QrCloserStep(j))

SpecQRClose == InitQROne /\ [][NextQR]_vars /\ QrFairness

\* ----------------------------------------------------------------- claims
RECURSIVE NumsOf(_, _)
\* The numbers of connection c's messages in q, in the order of q.
NumsOf(q, c) ==
    IF q = <<>> THEN <<>>
    ELSE (IF Head(q).c = c /\ ~Head(q).err THEN <<Head(q).n>> ELSE <<>>)
         \o NumsOf(Tail(q), c)

FromTo(a, b) == [i \in 1..(b - a + 1) |-> a + i - 1]
CountM(q) == Cardinality({i \in 1..Len(q) : q[i] = "m"})
CountErr(q, c) == Cardinality({i \in 1..Len(q) : q[i].err /\ q[i].c = c})
LbHeldM == Cardinality({c \in Conn : lbW[c].msg = "m"})
LbUndisturbed == ~lbCtx /\ ~lbCClosed
QrInHand(c) ==
    IF qrW[c].pc \in {"select", "send"} /\ ~qrW[c].msg.err THEN <<qrW[c].msg.n>> ELSE <<>>
QrExited(c) == qrW[c].pc \in {"close", "rm", "done"}
InLog(m, log) == \E i \in 1..Len(log) : log[i] = m

\* C1, state part: while no addConn has opened a pool's gate, no call on the
\* pool is past the gate and none has taken, enqueued or delivered a message;
\* the gate is open only once an addConn was called, is open when an addConn
\* has returned, and a call waiting at an open gate can pass it.
C1_GateState ==
    /\ qrReady => \E c \in Conn : qrAdd[c] # "idle"
    /\ lbReady => \E c \in Conn : lbAdd[c] # "idle"
    /\ mwReady => \E c \in Conn : mwAdd[c] # "idle"
    /\ ~qrReady =>
         /\ \A k \in Caller : qrRd[k].pc \in {"idle", "lock"} /\ ~qrRd[k].took
         /\ \A c \in Conn : qrCnt[c] = 0 /\ qrErrGot[c] = 0
    /\ ~lbReady =>
         /\ \A k \in Caller : lbWr[k].pc \in {"idle", "lock"} /\ ~lbWr[k].enq
         /\ lbC = <<>> /\ ~lbMAcc
    /\ ~mwReady =>
         /\ \A k \in Caller : mwWr[k].pc \in {"idle", "lock"}
         /\ \A c \in Conn : mwConn[c].log = <<>>
    /\ \A c \in Conn :
         /\ qrAdd[c] = "done" => qrReady
         /\ lbAdd[c] \in {"go", "done"} => lbReady
         /\ mwAdd[c] # "idle" => mwReady
    /\ \A k \in Caller :
         /\ (Running /\ qrReady /\ qrRd[k].pc = "lock") => ENABLED QrReadLock(k)
         /\ (Running /\ lbReady /\ lbWr[k].pc = "lock") => ENABLED LbWriteLock(k)
         /\ (Running /\ mwReady /\ mwWr[k].pc = "lock") => ENABLED MwWriteLock(k)

\* C1: the readiness gate holds every read and write back until the first
\* addConn, and once open it stays open, also when every adapter is gone.
C1_ReadinessGate ==
    /\ []C1_GateState
    /\ [][/\ qrReady => qrReady'
          /\ lbReady => lbReady'
          /\ mwReady => mwReady']_vars

\* A read call arrives at the open gate of a read pool whose adapters have all
\* been removed and whose workers are gone.
C1_Witness ==
    /\ kind = "qr" /\ Running
    /\ qrReady /\ qrRs = <<>>
    /\ \A c \in env.conns : qrW[c].pc = "done"
    /\ qrRd[1].pc = "lock" /\ ~qrRd[1].cancelled

\* C2: concurrent addConn calls never close the ready channel twice, and the
\* gate is open once one of them has returned.
C2_EnableIdempotent ==
    /\ fault # "close of closed channel sem.ready"
    /\ \A c \in Conn :
         /\ lbAdd[c] = "done" => lbReady
         /\ qrAdd[c] = "done" => qrReady
         /\ mwAdd[c] # "idle" => mwReady

\* C3: with no cancellation, every message a connection produced was returned
\* by one read call, in the order of the connection, or is still on its way
\* (in the queue, in that order, or in the worker's hands).
C3_FanInOrder ==
    \A c \in Conn :
      /\ qrLast[c] = qrCnt[c]
      /\ NumsOf(qrC, c) \o QrInHand(c) = FromTo(qrCnt[c] + 1, qrConn[c].prod)

\* The queue is full, worker 1 waits with its next message, and the message of
\* connection 2 has been read past messages of connection 1.
C3_Witness ==
    /\ Len(qrC) = qrsize /\ qrW[1].pc = "send"
    /\ qrCnt[2] = 1 /\ qrCnt[1] = 0 /\ env.callers = {1}

\* C4: a broadcast write that has returned attempted every adapter registered
\* when it took the mutex exactly once, waited for them all, returned an error
\* exactly when one of them failed, and left the message on every adapter that
\* did not fail.
C4_FanOutAll ==
    \A k \in Caller :
      mwWr[k].pc = "ret" =>
        /\ mwWr[k].pend = {}
        /\ \A i \in 1..Len(mwWr[k].snap) :
             /\ mwWr[k].att[i] = 1
             /\ (i \in mwWr[k].failed) = ~InLog(mwWr[k].msg, mwConn[mwWr[k].snap[i]].log)
        /\ (mwWr[k].ret = "err") = (mwWr[k].failed # {})
        /\ (mwWr[k].ret = "nil") = (mwWr[k].failed = {})

\* Three adapters, the write failed on the second only and returned an error.
C4_Witness ==
    /\ mwWr[1].pc = "ret" /\ mwWr[1].ret = "err"
    /\ Len(mwWr[1].snap) = 3 /\ mwWr[1].failed = {2}
    /\ InLog(1, mwConn[mwWr[1].snap[1]].log)
    /\ InLog(1, mwConn[mwWr[1].snap[3]].log)

\* C5: with one connection whose writes always succeed, and no cancellation
\* and no close, a message whose write returned nil is written to the
\* connection, and never more than once; until then it is in the queue or in
\* the worker's hands.
C5_ExactlyOnce ==
    /\ [](mode[1] = "ok" =>
            CountM(lbC) + LbHeldM + lbMWrote = (IF lbMAcc THEN 1 ELSE 0))
    /\ ((mode[1] = "ok" /\ lbMAcc) ~> (lbMWrote = 1 \/ ~LbUndisturbed))

\* The followed message was written after the queue had been filled.
C5_Witness ==
    /\ mode[1] = "ok" /\ lbMAcc /\ lbMWrote = 1 /\ LbUndisturbed
    /\ Len(lbC) = size

\* C6: with one connection whose writes always fail, and no cancellation and
\* no close, an accepted message is never dropped and its write is attempted
\* again and again.
C6_RetriedForever ==
    /\ [](mode[1] = "fail" => (lbMAcc => CountM(lbC) + LbHeldM = 1))
    /\ ((mode[1] = "fail" /\ lbMAcc) ~>
           ((lbW[1].pc = "write" /\ lbW[1].msg = "m") \/ ~LbUndisturbed))

\* C7: a second Close of a pool returns without a fault.
C7_CloseIdempotent == fault # "close of closed channel lw.c"

\* C8: once Close has returned, the worker of every adapter it closed
\* terminates.
C8_WorkersExit ==
    \A c \in Conn :
      (qrCloses > 0 /\ qrConn[c].closed > 0 /\ qrW[c].pc # "off")
        ~> (qrW[c].pc = "done" \/ ~Running)

\* C9: with the pool's context not cancelled, a connection's failed read is
\* put on the queue once, by a worker that then terminates, and is returned
\* by at most one read call: it is in the queue or was returned once.
C9_FailureOnce ==
    \A c \in Conn :
      ~qrCtx =>
        /\ qrErrEnq[c] <= 1
        /\ qrErrGot[c] + CountErr(qrC, c) = qrErrEnq[c]
        /\ QrExited(c) = (qrErrEnq[c] = 1)
        /\ \A k \in Caller :
             (qrRd[k].pc = "ret" /\ qrRd[k].ret = "err") => qrRd[k].took

\* The failure of connection 1 was returned by a read, its worker is gone,
\* and afterwards a message of connection 2 was read.
C9_Witness ==
    /\ qrErrGot[1] = 1 /\ qrW[1].pc = "done"
    /\ qrCnt[2] = 1 /\ qrCnt[1] = 0
    /\ qrRd[1].pc = "ret" /\ qrRd[1].ret = "nil"
    /\ qrRd[1].took /\ qrLast[2] = 1 /\ qrErrEnq[2] = 0
    /\ env.callers = {1} /\ qrC = <<>>

\* C10: a call that ended without carrying out its operation, because its
\* context was cancelled, returned a non-nil error.
C10_CancelIsError ==
    \A k \in Caller :
      /\ (qrRd[k].pc = "ret" /\ ~qrRd[k].took) => qrRd[k].ret # "nil"
      /\ (lbWr[k].pc = "ret" /\ ~lbWr[k].enq) => lbWr[k].ret = "ctxerr"

\* C11: a read or write call whose context is cancelled returns, wherever it
\* waits: at the readiness gate or at the shared queue.
C11_CancelAborts ==
    \A k \in Caller :
      /\ (lbWr[k].pc \in {"lock", "select"} /\ lbWr[k].cancelled)
            ~> (lbWr[k].pc = "ret" \/ ~Running)
      /\ (qrRd[k].pc \in {"lock", "select"} /\ qrRd[k].cancelled)
            ~> (qrRd[k].pc = "ret" \/ ~Running)

\* C12: whatever the interleaving of Close with write calls and workers of the
\* load-balanced pool, no write call and no requeueing worker sends on the
\* closed queue channel.
C12_CloseRaceNoFault == fault # "send on closed channel lw.c"

\* C13: when a broadcast write has returned, no adapter whose write failed in
\* it is still in the pool's list of registered adapters.
C13_FailedRemoved ==
    \A k \in Caller :
      mwWr[k].pc = "ret" =>
        \A i \in mwWr[k].failed : ~InLog(mwWr[k].snap[i], mwWs)

\* C14: once the context of a read pool or of a load-balanced pool is
\* cancelled, every worker of the pool terminates; stated for the workers the
\* claim names, which to terminate must first leave their send: a read-pool
\* worker with a message in hand and a load-balanced worker requeueing one.
C14_WorkersExitOnCancel ==
    \A c \in Conn :
      /\ (qrCtx /\ qrW[c].pc = "send")
            ~> (qrW[c].pc # "send" \/ ~Running)
      /\ (lbCtx /\ lbW[c].pc = "requeue")
            ~> (lbW[c].pc # "requeue" \/ ~Running)

\* C15: in a load-balanced pool whose connections are all registered and at
\* work, a message whose write failed on a connection is next attempted by
\* the worker of another connection.
C15_RetryElsewhere ==
    \A c \in Conn :
      (/\ Cardinality(env.conns) >= 2
       /\ \A d \in env.conns : lbW[d].pc \notin {"off", "done"}
       /\ lbW[c].pc = "write" /\ lbW[c].msg = "m")
        => lbMFailedOn # c

\* C16: in a read pool with no addConn and no rmConn in progress, every
\* adapter in the active list has a worker that is still running.
C16_RegistryLive ==
    (/\ \A c \in Conn : qrAdd[c] \in {"idle", "done"}
     /\ \A c \in Conn : qrW[c].pc # "rm")
      => \A i \in 1..Len(qrRs) : qrW[qrRs[i]].pc # "done"

\* C17 as stated: a load-balanced write that has returned and whose context
\* was cancelled before the message was enqueued returned the cancellation
\* error and enqueued nothing; any other returned nil after enqueueing.
C17_CancelledMeansError ==
    \A k \in Caller :
      lbWr[k].pc = "ret" =>
        IF lbWr[k].cancelled
          THEN lbWr[k].ret = "ctxerr" /\ ~lbWr[k].enq
          ELSE lbWr[k].ret = "nil" /\ lbWr[k].enq

\* C17 as amended: the step on which a load-balanced write returns either
\* returns the cancellation error, with the context cancelled and the queue
\* unchanged, or returns nil, having put the message on the queue once; with
\* the context not cancelled it returns nil.
C17_OutcomeMatchesEffect ==
    [][\A k \in Caller :
         (lbWr[k].pc # "ret" /\ lbWr'[k].pc = "ret") =>
           /\ lbWr'[k].ret \in {"ctxerr", "nil"}
           /\ lbWr'[k].ret = "ctxerr" =>
                 lbWr[k].cancelled /\ lbC' = lbC /\ ~lbWr'[k].enq
           /\ lbWr'[k].ret = "nil" =>
                 lbC' = Append(lbC, lbWr[k].msg) /\ lbWr'[k].enq
           /\ ~lbWr[k].cancelled => lbWr'[k].ret = "nil"]_vars

\* A write whose context was cancelled returned nil, and its message is on
\* the queue, not yet taken by a worker.
C17_Witness ==
    /\ lbWr[1].pc = "ret" /\ lbWr[1].cancelled /\ lbWr[1].ret = "nil"
    /\ lbWr[1].enq /\ lbWr[1].msg = "m" /\ CountM(lbC) = 1

\* C18: with no cancellation and no close, the load-balanced pool is never in
\* a state where the shared queue is full and the worker of every connection
\* is waiting to put a failed message back on it.
C18_NoRequeueDeadlock ==
    LbUndisturbed =>
      ~(/\ Len(lbC) = size
        /\ \A c \in env.conns : lbW[c].pc = "requeue")

\* C19: in a read pool the Close of an adapter's connection is invoked at
\* most once, whether by the pool's Close or by the worker on its exit.
C19_ClosedOnce == \A c \in Conn : qrConn[c].closed <= 1

Pos(m, log) == CHOOSE i \in 1..Len(log) : log[i] = m
SameOrder(l1, l2) ==
    \A i, j \in 1..Len(l1) :
      (i < j /\ InLog(l1[i], l2) /\ InLog(l1[j], l2))
        => Pos(l1[i], l2) < Pos(l1[j], l2)
MwWriting == {k \in Caller : mwWr[k].pc = "wait"}

\* C20: at most one broadcast write has its per-adapter writes in flight, and
\* it holds the mutex; the messages two adapters have both received are in the
\* same order on both; while a write is in flight the list of adapters is the
\* one it started from and stays so, no adapter is closed, and its message is
\* only on adapters of that list.
C20_Serialized ==
    /\ [](/\ Cardinality(MwWriting) <= 1
          /\ \A k \in MwWriting : mwMu = k /\ mwWs = mwWr[k].snap
          /\ \A c, d \in Conn : SameOrder(mwConn[c].log, mwConn[d].log)
          /\ \A k \in Caller, c \in Conn :
               (mwWr[k].pc \in {"wait", "ret"} /\ InLog(mwWr[k].msg, mwConn[c].log))
                 => InLog(c, mwWr[k].snap))
    /\ [][MwWriting # {} =>
            /\ mwWs' = mwWs
            /\ \A c \in Conn : mwConn'[c].closed = mwConn[c].closed]_vars

\* Two concurrent writes have both reached both adapters, the second call's
\* message first.
C20_Witness ==
    /\ mwConn[1].log = <<2, 1>> /\ mwConn[2].log = <<2, 1>>
    /\ mwWr[1].pc = "ret" /\ mwWr[2].pc = "ret"
====
